---------------------------- MODULE Spec2Model ----------------------------
(***************************************************************************)
(* Model of the POST /events handler of src/api/main.go: one request is    *)
(* decoded, validated, grouped by topic, published topic by topic and      *)
(* reconciled into the three response lists.                               *)
(*                                                                         *)
(* The broker and the JSON encoder are external.  The result of each       *)
(* WriteMessages call is chosen nondeterministically.  json.Marshal is a   *)
(* function of the value it encodes: the set of event values it rejects is *)
(* chosen nondeterministically when the request arrives.  Go's map         *)
(* iteration order is unspecified, so the topic of the next loop iteration *)
(* is chosen nondeterministically too.                                     *)
(***************************************************************************)
EXTENDS Integers, Sequences, FiniteSets, TLC

\* ------------------------------------------------------------------------
\* Bounds and input alphabets
\* ------------------------------------------------------------------------

\* Largest number of events in one request body.
MaxBatch == 2

\* Identifiers: empty, a plain one, and one that spells a topic name.
IDs == {"", "a", "d_s_c"}
Domains == {"", "d", "e"}
Subdomains == {"", "s"}
Codes == {"", "c"}
Payloads == {"p", "q"}

\* Values used to vary the fields validateEvent does not read.
OtherStrings == {"", "p", "q", "1.0"}
OtherInts == {0, 1}

\* The Event struct.  The fields the dispatch logic never reads keep one
\* value each, except Payload.
EventsWith(payloads) ==
    [EventTimestamp : {0}, EventTime : {""}, ID : IDs, Domain : Domains,
     Subdomain : Subdomains, Code : Codes, Version : {"1.0"}, BranchID : {0},
     ChannelID : {0}, CustomerID : {0}, UserID : {0}, Payload : payloads]

Complete(event) ==
    event.ID # "" /\ event.Domain # "" /\ event.Subdomain # "" /\ event.Code # ""

\* The number of required fields the event leaves empty.
EmptyCount(event) ==
    (IF event.ID = "" THEN 1 ELSE 0) + (IF event.Domain = "" THEN 1 ELSE 0)
      + (IF event.Subdomain = "" THEN 1 ELSE 0) + (IF event.Code = "" THEN 1 ELSE 0)

\* The events of a request: the complete ones with every payload, so that
\* two events with equal identifier and topic can still differ; and, with
\* the first payload, the ones with one required field empty or all four.
Events ==
    {event \in EventsWith(Payloads) :
        \/ Complete(event)
        \/ event.Payload = "p" /\ EmptyCount(event) \in {1, 4}}

\* Number of requests handled concurrently on the one KafkaProducer.
NumCalls == 2

CallIds == 1..NumCalls

\* An event of the concurrent requests: subdomain "s", code "c".
ConcEvent(id, domain) ==
    [EventTimestamp |-> 0, EventTime |-> "", ID |-> id, Domain |-> domain,
     Subdomain |-> "s", Code |-> "c", Version |-> "1.0", BranchID |-> 0,
     ChannelID |-> 0, CustomerID |-> 0, UserID |-> 0, Payload |-> "p"]

\* The request bodies of the concurrent requests: one topic; an identifier
\* that spells the other request's topic; two topics; an invalid event.
ConcBatches ==
    {<<ConcEvent("a", "d")>>,
     <<ConcEvent("d_s_c", "e")>>,
     <<ConcEvent("a", "d"), ConcEvent("a", "e")>>,
     <<ConcEvent("a", "")>>}

\* Number of worker goroutines of the load test (flag goroutines).
NumWorkers == 2

Workers == 1..NumWorkers

\* Number of requests the workers send before main's sleep ends.
MaxRequests == 3

\* Events per request of the load test (flag events, default 1).
EventsPerReq == 1

\* The counters of LoadTestStats, all zero.
ZeroStats ==
    [TotalRequests |-> 0, SuccessRequests |-> 0, FailedRequests |-> 0,
     TimeoutRequests |-> 0, TotalEvents |-> 0, SuccessEvents |-> 0,
     FailedEvents |-> 0, InvalidEvents |-> 0]

\* Holders of statsMutex: nobody, a worker (its number), the statistics
\* printer, main.
Unlocked == 0

PrinterId == NumWorkers + 1

MainId == NumWorkers + 2

\* What sendRequest returns: an error and no response, or a decoded response
\* (its three lists given by their lengths) and no error.
NoOutcome == [err |-> "none", S |-> 0, F |-> 0, I |-> 0]

Outcomes ==
    {[err |-> e, S |-> 0, F |-> 0, I |-> 0] :
        e \in {"context deadline exceeded", "HTTP 400"}}
    \cup
    {[err |-> "", S |-> n, F |-> f, I |-> i] :
        <<n, f, i>> \in {t \in (0..EventsPerReq) \X (0..EventsPerReq) \X (0..EventsPerReq) :
                            t[1] + t[2] + t[3] = EventsPerReq}}

\* strings.Contains(err.Error(), "timeout") || ... "context deadline exceeded"
IsTimeout(err) == err \in {"timeout", "context deadline exceeded"}

RECURSIVE SeqsUpTo(_, _)
SeqsUpTo(S, n) ==
    IF n = 0 THEN {<<>>}
    ELSE LET shorter == SeqsUpTo(S, n - 1)
         IN  shorter \cup {Append(s, x) : s \in {t \in shorter : Len(t) = n - 1}, x \in S}

Batches == SeqsUpTo(Events, MaxBatch)

\* ------------------------------------------------------------------------
\* State
\* ------------------------------------------------------------------------

VARIABLES
    pc,             \* position of the handler
    status,         \* HTTP status written by c.JSON (0: none yet)
    events,         \* var events []Event after ShouldBindJSON
    response,       \* EventResponse
    validEvents,    \* validEvents []Event
    eventsByTopic,  \* SendEvents: map topic -> []Event
    errors,         \* SendEvents: map key -> error
    pending,        \* topics the range loop of SendEvents has not visited
    writeCalls,     \* the WriteMessages calls made, in order
    writersCreated, \* kafka.Writer values constructed by SendEvents
    writersOpen,    \* of those, the ones not yet closed
    contextsOpen,   \* timeout contexts created and not yet cancelled
    body,           \* the body written by c.JSON
    validAt,        \* history: input index of each element of validEvents
    groupAt,        \* history: input index of each element of each group
    unencodable,    \* the event values json.Marshal returns an error for
    marshalFailed,  \* history: input indices whose json.Marshal failed
    classOf,        \* history: the list each input event's entry went to
    calls,          \* concurrent requests: the local state of each handler
    wpc,            \* load test: position of each worker goroutine
    outcome,        \* load test: the result each worker is recording
    stats,          \* load test: the shared LoadTestStats counters
    mutex,          \* load test: holder of statsMutex
    stopClosed,     \* load test: stopChan has been closed
    wgCount,        \* load test: counter of the WaitGroup
    mainPc,         \* load test: position of main
    printerPc,      \* load test: position of printRealTimeStats
    started,        \* load test: number of requests sent so far
    applied         \* history: the counters after each completed updateStats

\* The state of the handler.
handlerVars ==
    <<pc, status, events, response, validEvents, eventsByTopic, errors,
      pending, writeCalls, writersCreated, writersOpen, contextsOpen, body,
      validAt, groupAt, unencodable, marshalFailed, classOf>>

\* The state the handler does not touch.
\* The state of the load-test tool.
loadVars == <<wpc, outcome, stats, mutex, stopClosed, wgCount, mainPc,
              printerPc, started, applied>>

otherVars == <<calls, loadVars>>

\* The state of the concurrent requests.
concVars == <<calls>>

vars == <<handlerVars, otherVars>>

NoBody == [kind |-> "none"]

EmptyMap == [k \in {} |-> ""]

EmptyResponse ==
    [SuccessEventIds |-> <<>>, InvalidEventIds |-> <<>>, FailedEventIds |-> <<>>]

\* m[k] = v
MapSet(m, k, v) == [x \in DOMAIN m \cup {k} |-> IF x = k THEN v ELSE m[x]]

\* ------------------------------------------------------------------------
\* Pure functions of the source
\* ------------------------------------------------------------------------

\* Mutant of validateEvent: the test of Code is missing.
validateEventNoCode(event) ==
    ~(event.ID = "" \/ event.Domain = "" \/ event.Subdomain = "")

validateEvent(event) ==
    ~(event.ID = "" \/ event.Domain = "" \/ event.Subdomain = "" \/ event.Code = "")

\* SendEvents: fmt.Sprintf("%s_%s_%s", event.Domain, event.Subdomain, event.Code)
TopicName(event) == event.Domain \o "_" \o event.Subdomain \o "_" \o event.Code

\* Mutant of ReconcileTopicName: the fields are joined in another order.
ReconcileTopicNameSwapped(event) ==
    event.Subdomain \o "_" \o event.Domain \o "_" \o event.Code

\* The handler's result loop: the same Sprintf, written out again.
ReconcileTopicName(event) ==
    event.Domain \o "_" \o event.Subdomain \o "_" \o event.Code

\* SendEvent: the same Sprintf, written out a third time.
SendEventTopicName(event) ==
    event.Domain \o "_" \o event.Subdomain \o "_" \o event.Code

\* json.Marshal(event): the fields in declaration order.
Marshal(event) ==
    <<event.EventTimestamp, event.EventTime, event.ID, event.Domain,
      event.Subdomain, event.Code, event.Version, event.BranchID,
      event.ChannelID, event.CustomerID, event.UserID, event.Payload>>

\* kafka.Message{Key: []byte(event.ID), Value: eventBytes}
Message(event) == [Key |-> event.ID, Value |-> Marshal(event)]


\* ------------------------------------------------------------------------
\* The loops of the handler and of SendEvents
\* ------------------------------------------------------------------------

\* Mutant of ValidateLoop: the continue after recording an invalid event is
\* missing, so the event is appended to validEvents as well.
RECURSIVE ValidateLoopNoContinue(_, _)
ValidateLoopNoContinue(evs, n) ==
    IF n = 0
    THEN [InvalidEventIds |-> <<>>, validEvents |-> <<>>, validAt |-> <<>>]
    ELSE LET r == ValidateLoopNoContinue(evs, n - 1)
             event == evs[n]
             q == IF ~validateEvent(event)
                  THEN [r EXCEPT !.InvalidEventIds = Append(@, event.ID)]
                  ELSE r
         IN  [q EXCEPT !.validEvents = Append(@, event),
                       !.validAt = Append(@, n)]

\* The validation loop over events[1..n]: invalid identifiers are appended to
\* InvalidEventIds, valid events to validEvents.
RECURSIVE ValidateLoop(_, _)
ValidateLoop(evs, n) ==
    IF n = 0
    THEN [InvalidEventIds |-> <<>>, validEvents |-> <<>>, validAt |-> <<>>]
    ELSE LET r == ValidateLoop(evs, n - 1)
             event == evs[n]
         IN  IF ~validateEvent(event)
             THEN [r EXCEPT !.InvalidEventIds = Append(@, event.ID)]
             ELSE [r EXCEPT !.validEvents = Append(@, event),
                            !.validAt = Append(@, n)]

\* Mutant of AppendToGroup: the group is replaced instead of extended.
AppendToGroupOverwrite(m, topicName, x) == MapSet(m, topicName, <<x>>)

\* eventsByTopic[topicName] = append(eventsByTopic[topicName], event)
AppendToGroup(m, topicName, x) ==
    MapSet(m, topicName,
           IF topicName \in DOMAIN m THEN Append(m[topicName], x) ELSE <<x>>)

\* The grouping loop of SendEvents over evs[1..n]; at carries the input
\* index of each event along.
RECURSIVE GroupLoop(_, _, _)
GroupLoop(evs, at, n) ==
    IF n = 0
    THEN [eventsByTopic |-> EmptyMap, groupAt |-> EmptyMap]
    ELSE LET r == GroupLoop(evs, at, n - 1)
             topicName == TopicName(evs[n])
         IN  [eventsByTopic |-> AppendToGroup(r.eventsByTopic, topicName, evs[n]),
              groupAt |-> AppendToGroup(r.groupAt, topicName, at[n])]

\* Mutant of PrepareMessages: a json.Marshal error is not recorded.
RECURSIVE PrepareMessagesNoRecord(_, _, _, _)
PrepareMessagesNoRecord(topicEvents, bad, errs, n) ==
    IF n = 0
    THEN [messages |-> <<>>, errors |-> errs]
    ELSE LET r == PrepareMessagesNoRecord(topicEvents, bad, errs, n - 1)
             event == topicEvents[n]
         IN  IF event \in bad
             THEN r
             ELSE [r EXCEPT !.messages = Append(@, Message(event))]

\* The message loop of one topic over topicEvents[1..n]: an event whose
\* json.Marshal returns an error (its value is in bad) is recorded in errs
\* under its identifier and skipped.
RECURSIVE PrepareMessages(_, _, _, _)
PrepareMessages(topicEvents, bad, errs, n) ==
    IF n = 0
    THEN [messages |-> <<>>, errors |-> errs]
    ELSE LET r == PrepareMessages(topicEvents, bad, errs, n - 1)
             event == topicEvents[n]
         IN  IF event \in bad
             THEN [r EXCEPT !.errors = MapSet(@, event.ID, "marshal")]
             ELSE [r EXCEPT !.messages = Append(@, Message(event))]

\* Mutant of RemainingAfter: a topic whose publish failed is tried again.
RemainingAfterRetry(topics, topicName, err) ==
    IF err # "" THEN topics ELSE topics \ {topicName}

\* The topics the range loop still has to visit after the iteration for
\* topicName: the loop moves on whatever WriteMessages returned.
RemainingAfter(topics, topicName, err) == topics \ {topicName}

\* Mutant of Classify: the topic-level error is not looked up.
ClassifyIdOnly(event, errs) ==
    IF event.ID \in DOMAIN errs THEN "failed" ELSE "succeeded"

\* The branch the result loop takes for one valid event.
Classify(event, errs) ==
    IF event.ID \in DOMAIN errs THEN "failed"
    ELSE IF ReconcileTopicName(event) \in DOMAIN errs THEN "failed"
    ELSE "succeeded"

\* Mutant of ReconcileLoop: the two error lookups are separate ifs, so an
\* event with both errors is appended to FailedEventIds twice.
RECURSIVE ReconcileLoopNoElse(_, _, _, _, _, _)
ReconcileLoopNoElse(resp, cls, evs, at, errs, n) ==
    IF n = 0
    THEN [response |-> resp, classOf |-> cls]
    ELSE LET r == ReconcileLoopNoElse(resp, cls, evs, at, errs, n - 1)
             eventID == evs[n].ID
             byId == eventID \in DOMAIN errs
             byTopic == ReconcileTopicName(evs[n]) \in DOMAIN errs
             r1 == IF byId
                   THEN [r.response EXCEPT !.FailedEventIds = Append(@, eventID)]
                   ELSE r.response
             r2 == IF byTopic
                   THEN [r1 EXCEPT !.FailedEventIds = Append(@, eventID)]
                   ELSE r1
             r3 == IF ~byId /\ ~byTopic
                   THEN [r2 EXCEPT !.SuccessEventIds = Append(@, eventID)]
                   ELSE r2
         IN  [response |-> r3,
              classOf |-> [r.classOf EXCEPT ![at[n]] = Classify(evs[n], errs)]]

\* The result loop over validEvents[1..n]; at gives the input index of each
\* valid event, for the history of classifications.
RECURSIVE ReconcileLoop(_, _, _, _, _, _)
ReconcileLoop(resp, cls, evs, at, errs, n) ==
    IF n = 0
    THEN [response |-> resp, classOf |-> cls]
    ELSE LET r == ReconcileLoop(resp, cls, evs, at, errs, n - 1)
             eventID == evs[n].ID
             c == Classify(evs[n], errs)
         IN  [response |->
                 IF c = "failed"
                 THEN [r.response EXCEPT !.FailedEventIds = Append(@, eventID)]
                 ELSE [r.response EXCEPT !.SuccessEventIds = Append(@, eventID)],
              classOf |-> [r.classOf EXCEPT ![at[n]] = c]]

\* Mutant of WritersOpenAfter: Close is skipped when WriteMessages failed.
WritersOpenAfterLeak(open, err) == IF err # "" THEN open + 1 ELSE (open + 1) - 1

\* The open writers after one iteration of the range loop: the writer is
\* created at the top and closed by writer.Close() at the end, whatever
\* WriteMessages returned.
WritersOpenAfter(open, err) == (open + 1) - 1

\* The live timeout contexts after one iteration: created before
\* WriteMessages, cancelled by cancel() after it, whatever it returned.
ContextsOpenAfter(open, err) == (open + 1) - 1

\* Mutant of ResponseStatus: errors of SendEvents become a server error.
ResponseStatusOnError(errs) == IF DOMAIN errs # {} THEN 500 ELSE 200

\* The status of the answer to a decoded request: http.StatusOK, whatever
\* SendEvents returned.
ResponseStatus(errs) == 200

\* Mutant of AfterBadRequest: the return after the 400 is missing.
AfterBadRequestNoReturn == "validate"

\* Where the handler goes after answering 400: it returns.
AfterBadRequest == "done"

\* ------------------------------------------------------------------------
\* Initial state and actions
\* ------------------------------------------------------------------------

\* A handler of the concurrent requests that has not started.
IdleCall ==
    [pc |-> "idle", status |-> 0, events |-> <<>>, response |-> EmptyResponse,
     validEvents |-> <<>>, validAt |-> <<>>, eventsByTopic |-> EmptyMap,
     errors |-> EmptyMap, pending |-> {}, failedTopics |-> {}, body |-> NoBody]

\* The load-test tool before main runs.
LoadIdle ==
    /\ wpc = [w \in Workers |-> "off"]
    /\ outcome = [w \in Workers |-> NoOutcome]
    /\ stats = ZeroStats
    /\ mutex = Unlocked
    /\ stopClosed = FALSE
    /\ wgCount = 0
    /\ mainPc = "init"
    /\ printerPc = "off"
    /\ started = 0
    /\ applied = ZeroStats

Init ==
    /\ calls = [p \in CallIds |-> IdleCall]
    /\ LoadIdle
    /\ pc = "idle"
    /\ status = 0
    /\ events = <<>>
    /\ response = EmptyResponse
    /\ validEvents = <<>>
    /\ eventsByTopic = EmptyMap
    /\ errors = EmptyMap
    /\ pending = {}
    /\ writeCalls = <<>>
    /\ writersCreated = 0
    /\ writersOpen = 0
    /\ contextsOpen = 0
    /\ body = NoBody
    /\ validAt = <<>>
    /\ groupAt = EmptyMap
    /\ unencodable = {}
    /\ marshalFailed = {}
    /\ classOf = <<>>

\* ShouldBindJSON fails: 400 and return.
BadRequest ==
    /\ pc = "idle"
    /\ status' = 400
    /\ body' = [kind |-> "error", error |-> "Invalid JSON format"]
    /\ pc' = AfterBadRequest
    /\ UNCHANGED <<events, response, validEvents, eventsByTopic, errors,
                   pending, writeCalls, writersCreated, writersOpen, validAt,
                   groupAt, unencodable, marshalFailed, classOf,
                   contextsOpen>>
    /\ UNCHANGED otherVars

\* ShouldBindJSON succeeds; the response starts with three empty lists.
Bind ==
    /\ pc = "idle"
    /\ \E batch \in Batches :
          /\ events' = batch
          /\ classOf' = [i \in 1..Len(batch) |-> "none"]
          /\ \E bad \in SUBSET {batch[i] : i \in 1..Len(batch)} :
                /\ \A event \in bad : Complete(event)
                /\ unencodable' = bad
    /\ response' = EmptyResponse
    /\ pc' = "validate"
    /\ UNCHANGED <<status, validEvents, eventsByTopic, errors, pending,
                   writeCalls, writersCreated, writersOpen, validAt, groupAt,
                   marshalFailed, contextsOpen, body>>
    /\ UNCHANGED otherVars

\* The validation loop, then the test len(validEvents) > 0.
Validate ==
    /\ pc = "validate"
    /\ LET r == ValidateLoop(events, Len(events))
       IN  /\ response' = [response EXCEPT !.InvalidEventIds = r.InvalidEventIds]
           /\ validEvents' = r.validEvents
           /\ validAt' = r.validAt
           /\ classOf' = [i \in 1..Len(events) |->
                            IF i \in {r.validAt[k] : k \in 1..Len(r.validAt)}
                            THEN classOf[i] ELSE "invalid"]
           /\ pc' = IF Len(r.validEvents) > 0 THEN "group" ELSE "respond"
    /\ UNCHANGED <<status, events, eventsByTopic, errors, pending,
                   writeCalls, writersCreated, writersOpen, groupAt,
                   unencodable, marshalFailed, contextsOpen, body>>
    /\ UNCHANGED otherVars

\* SendEvents, up to the start of the range loop over eventsByTopic.
Group ==
    /\ pc = "group"
    /\ LET r == GroupLoop(validEvents, validAt, Len(validEvents))
       IN  /\ eventsByTopic' = r.eventsByTopic
           /\ groupAt' = r.groupAt
           /\ pending' = DOMAIN r.eventsByTopic
    /\ errors' = EmptyMap
    /\ pc' = "publish"
    /\ UNCHANGED <<status, events, response, validEvents, writeCalls,
                   writersCreated, writersOpen, validAt, unencodable,
                   marshalFailed, classOf, contextsOpen, body>>
    /\ UNCHANGED otherVars

\* One iteration of the range loop: create the writer, build the messages,
\* call WriteMessages once, record its error, cancel and close.
PublishTopic ==
    /\ pc = "publish"
    /\ \E topicName \in pending :
       \E err \in {"", "write"} :
          LET topicEvents == eventsByTopic[topicName]
              r == PrepareMessages(topicEvents, unencodable, errors,
                                   Len(topicEvents))
              failAt == {j \in 1..Len(topicEvents) : topicEvents[j] \in unencodable}
          IN  /\ writeCalls' = Append(writeCalls,
                                      [Topic |-> topicName,
                                       Messages |-> r.messages,
                                       Err |-> err])
              /\ errors' = IF err # "" THEN MapSet(r.errors, topicName, err)
                           ELSE r.errors
              /\ marshalFailed' =
                    marshalFailed \cup {groupAt[topicName][j] : j \in failAt}
              /\ pending' = RemainingAfter(pending, topicName, err)
              /\ writersOpen' = WritersOpenAfter(writersOpen, err)
              /\ contextsOpen' = ContextsOpenAfter(contextsOpen, err)
    /\ writersCreated' = writersCreated + 1
    /\ UNCHANGED <<pc, status, events, response, validEvents, eventsByTopic,
                   validAt, groupAt, unencodable, classOf, body>>
    /\ UNCHANGED otherVars

\* SendEvents returns errors; the handler runs the result loop.
Reconcile ==
    /\ pc = "publish"
    /\ pending = {}
    /\ LET r == ReconcileLoop(response, classOf, validEvents, validAt,
                              errors, Len(validEvents))
       IN  /\ response' = r.response
           /\ classOf' = r.classOf
    /\ pc' = "respond"
    /\ UNCHANGED <<status, events, validEvents, eventsByTopic, errors,
                   pending, writeCalls, writersCreated, writersOpen, validAt,
                   groupAt, unencodable, marshalFailed, contextsOpen, body>>
    /\ UNCHANGED otherVars

\* c.JSON(http.StatusOK, response)
Respond ==
    /\ pc = "respond"
    /\ status' = ResponseStatus(errors)
    /\ body' = [kind |-> "response", response |-> response]
    /\ pc' = "done"
    /\ UNCHANGED <<events, response, validEvents, eventsByTopic, errors,
                   pending, writeCalls, writersCreated, writersOpen, validAt,
                   groupAt, unencodable, marshalFailed, classOf,
                   contextsOpen>>
    /\ UNCHANGED otherVars

Next ==
    \/ BadRequest
    \/ Bind
    \/ Validate
    \/ Group
    \/ PublishTopic
    \/ Reconcile
    \/ Respond

Spec == Init /\ [][Next]_vars

\* ------------------------------------------------------------------------
\* Concurrent requests: gin runs each POST /events handler on its own
\* goroutine; the handlers share the KafkaProducer, of which SendEvents only
\* reads brokers.  Each action is the step of the single handler above, taken
\* by request p on its own local variables.  json.Marshal rejects nothing.
\* ------------------------------------------------------------------------

\* Mutant of ErrorsReturned: the errors map is one process-wide map, so a
\* request sees the entries of every request.
ErrorsReturnedShared(cs, p) ==
    [k \in UNION {DOMAIN cs[q].errors : q \in DOMAIN cs} |-> "error"]

\* The map SendEvents returns to request p: the one it made itself.
ErrorsReturned(cs, p) == cs[p].errors

ConcBadRequest(p) ==
    /\ calls[p].pc = "idle"
    /\ calls' = [calls EXCEPT ![p].status = 400,
                              ![p].body = [kind |-> "error",
                                           error |-> "Invalid JSON format"],
                              ![p].pc = AfterBadRequest]
    /\ UNCHANGED <<handlerVars, loadVars>>

ConcBind(p) ==
    /\ calls[p].pc = "idle"
    /\ \E batch \in ConcBatches :
          calls' = [calls EXCEPT ![p].events = batch,
                                 ![p].response = EmptyResponse,
                                 ![p].pc = "validate"]
    /\ UNCHANGED <<handlerVars, loadVars>>

ConcValidate(p) ==
    /\ calls[p].pc = "validate"
    /\ LET r == ValidateLoop(calls[p].events, Len(calls[p].events))
       IN  calls' = [calls EXCEPT
                        ![p].response.InvalidEventIds = r.InvalidEventIds,
                        ![p].validEvents = r.validEvents,
                        ![p].validAt = r.validAt,
                        ![p].pc = IF Len(r.validEvents) > 0 THEN "group"
                                  ELSE "respond"]
    /\ UNCHANGED <<handlerVars, loadVars>>

ConcGroup(p) ==
    /\ calls[p].pc = "group"
    /\ LET r == GroupLoop(calls[p].validEvents, calls[p].validAt,
                          Len(calls[p].validEvents))
       IN  calls' = [calls EXCEPT ![p].eventsByTopic = r.eventsByTopic,
                                  ![p].pending = DOMAIN r.eventsByTopic,
                                  ![p].errors = EmptyMap,
                                  ![p].pc = "publish"]
    /\ UNCHANGED <<handlerVars, loadVars>>

ConcPublishTopic(p) ==
    /\ calls[p].pc = "publish"
    /\ \E topicName \in calls[p].pending :
       \E err \in {"", "write"} :
          LET topicEvents == calls[p].eventsByTopic[topicName]
              r == PrepareMessages(topicEvents, {}, calls[p].errors,
                                   Len(topicEvents))
          IN  calls' = [calls EXCEPT
                           ![p].errors = IF err # ""
                                         THEN MapSet(r.errors, topicName, err)
                                         ELSE r.errors,
                           ![p].failedTopics = IF err # "" THEN @ \cup {topicName}
                                               ELSE @,
                           ![p].pending = RemainingAfter(@, topicName, err)]
    /\ UNCHANGED <<handlerVars, loadVars>>

ConcReconcile(p) ==
    /\ calls[p].pc = "publish"
    /\ calls[p].pending = {}
    /\ LET r == ReconcileLoop(calls[p].response,
                              [i \in 1..Len(calls[p].events) |-> "none"],
                              calls[p].validEvents, calls[p].validAt,
                              ErrorsReturned(calls, p),
                              Len(calls[p].validEvents))
       IN  calls' = [calls EXCEPT ![p].response = r.response,
                                  ![p].pc = "respond"]
    /\ UNCHANGED <<handlerVars, loadVars>>

ConcRespond(p) ==
    /\ calls[p].pc = "respond"
    /\ calls' = [calls EXCEPT
                    ![p].status = ResponseStatus(calls[p].errors),
                    ![p].body = [kind |-> "response",
                                 response |-> calls[p].response],
                    ![p].pc = "done"]
    /\ UNCHANGED <<handlerVars, loadVars>>

ConcNext ==
    \E p \in CallIds :
        \/ ConcBadRequest(p)
        \/ ConcBind(p)
        \/ ConcValidate(p)
        \/ ConcGroup(p)
        \/ ConcPublishTopic(p)
        \/ ConcReconcile(p)
        \/ ConcRespond(p)

ConcSpec == Init /\ [][ConcNext]_vars

\* ------------------------------------------------------------------------
\* The load-test tool (src/loadtest/main.go): main starts the statistics
\* printer and the workers, sleeps, closes stopChan, waits for the workers
\* and prints the final report.  Latencies are not modelled.
\* ------------------------------------------------------------------------

\* Mutant of CanLock: Lock returns at once, whoever holds the mutex.
CanLockAlways(holder) == TRUE

\* statsMutex.Lock() returns only when nobody holds the mutex.
CanLock(holder) == holder = Unlocked

\* Mutant of WaitDone: Wait returns whatever the counter.
WaitDoneEarly(count) == TRUE

\* wg.Wait() returns when the counter is zero.
WaitDone(count) == count = 0

\* select takes its default branch only when no channel case is ready.
DefaultReady(closed) == ~closed

\* The effect of one whole updateStats call on the counters.
Apply(st, o) ==
    IF o.err # ""
    THEN IF IsTimeout(o.err)
         THEN [st EXCEPT !.TotalRequests = @ + 1, !.TimeoutRequests = @ + 1]
         ELSE [st EXCEPT !.TotalRequests = @ + 1, !.FailedRequests = @ + 1]
    ELSE [st EXCEPT !.TotalRequests = @ + 1, !.SuccessRequests = @ + 1,
                    !.TotalEvents = @ + o.S + o.F + o.I,
                    !.SuccessEvents = @ + o.S,
                    !.FailedEvents = @ + o.F,
                    !.InvalidEvents = @ + o.I]

\* main, lines 342-349: StartTime, stopChan, go printRealTimeStats.
MainStart ==
    /\ mainPc = "init"
    /\ mainPc' = "spawn"
    /\ printerPc' = "select"
    /\ UNCHANGED <<wpc, outcome, stats, mutex, stopClosed, wgCount, started,
                   applied>>
    /\ UNCHANGED <<handlerVars, concVars>>

\* main, lines 353-356: wg.Add(1); go worker(...), for the next worker.
MainSpawn ==
    /\ mainPc = "spawn"
    /\ LET w == CHOOSE v \in Workers :
                   wpc[v] = "off" /\ \A u \in Workers : u < v => wpc[u] # "off"
       IN  /\ wgCount' = wgCount + 1
           /\ wpc' = [wpc EXCEPT ![w] = "select"]
           /\ mainPc' = IF w = NumWorkers THEN "sleep" ELSE "spawn"
    /\ UNCHANGED <<outcome, stats, mutex, stopClosed, printerPc, started,
                   applied>>
    /\ UNCHANGED <<handlerVars, concVars>>

\* main, lines 360-364: the sleep ends, close(stopChan).
MainClose ==
    /\ mainPc = "sleep"
    /\ stopClosed' = TRUE
    /\ mainPc' = "wait"
    /\ UNCHANGED <<wpc, outcome, stats, mutex, wgCount, printerPc, started,
                   applied>>
    /\ UNCHANGED <<handlerVars, concVars>>

\* main, lines 365-367: wg.Wait() returns, EndTime is recorded.
MainWait ==
    /\ mainPc = "wait"
    /\ WaitDone(wgCount)
    /\ mainPc' = "report"
    /\ UNCHANGED <<wpc, outcome, stats, mutex, stopClosed, wgCount, printerPc,
                   started, applied>>
    /\ UNCHANGED <<handlerVars, concVars>>

\* printFinalReport, line 265: statsMutex.Lock().
MainReportLock ==
    /\ mainPc = "report"
    /\ CanLock(mutex)
    /\ mutex' = MainId
    /\ mainPc' = "reporting"
    /\ UNCHANGED <<wpc, outcome, stats, stopClosed, wgCount, printerPc,
                   started, applied>>
    /\ UNCHANGED <<handlerVars, concVars>>

\* printFinalReport, lines 268-313: the report is printed, deferred Unlock.
MainReportUnlock ==
    /\ mainPc = "reporting"
    /\ mutex' = Unlocked
    /\ mainPc' = "done"
    /\ UNCHANGED <<wpc, outcome, stats, stopClosed, wgCount, printerPc,
                   started, applied>>
    /\ UNCHANGED <<handlerVars, concVars>>

\* worker, lines 188-190 and 178: stopChan is closed, return, wg.Done().
WorkerSelectStop(w) ==
    /\ wpc[w] = "select"
    /\ stopClosed
    /\ wpc' = [wpc EXCEPT ![w] = "returned"]
    /\ wgCount' = wgCount - 1
    /\ UNCHANGED <<outcome, stats, mutex, stopClosed, mainPc, printerPc,
                   started, applied>>
    /\ UNCHANGED <<handlerVars, concVars>>

\* worker, lines 191-199: default branch, the request is sent.  Once
\* MaxRequests requests were sent the workers stay in time.Sleep.
WorkerSelectDefault(w) ==
    /\ wpc[w] = "select"
    /\ DefaultReady(stopClosed)
    /\ started < MaxRequests
    /\ wpc' = [wpc EXCEPT ![w] = "sending"]
    /\ started' = started + 1
    /\ UNCHANGED <<outcome, stats, mutex, stopClosed, wgCount, mainPc,
                   printerPc, applied>>
    /\ UNCHANGED <<handlerVars, concVars>>

\* worker, lines 199-200 and updateStats, line 130: sendRequest returns
\* and updateStats takes the mutex.
WorkerLock(w) ==
    /\ wpc[w] = "sending"
    /\ CanLock(mutex)
    /\ \E o \in Outcomes : outcome' = [outcome EXCEPT ![w] = o]
    /\ mutex' = w
    /\ wpc' = [wpc EXCEPT ![w] = "u133"]
    /\ UNCHANGED <<stats, stopClosed, wgCount, mainPc, printerPc, started,
                   applied>>
    /\ UNCHANGED <<handlerVars, concVars>>

\* updateStats, line 133.
WorkerAddTotal(w) ==
    /\ wpc[w] = "u133"
    /\ stats' = [stats EXCEPT !.TotalRequests = @ + 1]
    /\ wpc' = [wpc EXCEPT ![w] = "u135"]
    /\ UNCHANGED <<outcome, mutex, stopClosed, wgCount, mainPc, printerPc,
                   started, applied>>
    /\ UNCHANGED <<handlerVars, concVars>>

\* updateStats, lines 135-151.
WorkerAddClass(w) ==
    /\ wpc[w] = "u135"
    /\ IF outcome[w].err # ""
       THEN /\ stats' = IF IsTimeout(outcome[w].err)
                        THEN [stats EXCEPT !.TimeoutRequests = @ + 1]
                        ELSE [stats EXCEPT !.FailedRequests = @ + 1]
            /\ wpc' = [wpc EXCEPT ![w] = "unlock"]
       ELSE /\ stats' = [stats EXCEPT !.SuccessRequests = @ + 1]
            /\ wpc' = [wpc EXCEPT ![w] = "u155"]
    /\ UNCHANGED <<outcome, mutex, stopClosed, wgCount, mainPc, printerPc,
                   started, applied>>
    /\ UNCHANGED <<handlerVars, concVars>>

\* updateStats, line 155.
WorkerAddTotalEvents(w) ==
    /\ wpc[w] = "u155"
    /\ stats' = [stats EXCEPT !.TotalEvents = @ + outcome[w].S + outcome[w].F
                                               + outcome[w].I]
    /\ wpc' = [wpc EXCEPT ![w] = "u156"]
    /\ UNCHANGED <<outcome, mutex, stopClosed, wgCount, mainPc, printerPc,
                   started, applied>>
    /\ UNCHANGED <<handlerVars, concVars>>

\* updateStats, lines 156-158.
WorkerAddEvents(w) ==
    /\ wpc[w] = "u156"
    /\ stats' = [stats EXCEPT !.SuccessEvents = @ + outcome[w].S,
                              !.FailedEvents = @ + outcome[w].F,
                              !.InvalidEvents = @ + outcome[w].I]
    /\ wpc' = [wpc EXCEPT ![w] = "unlock"]
    /\ UNCHANGED <<outcome, mutex, stopClosed, wgCount, mainPc, printerPc,
                   started, applied>>
    /\ UNCHANGED <<handlerVars, concVars>>

\* updateStats returns (deferred Unlock, line 131); worker, lines 203-205.
WorkerUnlock(w) ==
    /\ wpc[w] = "unlock"
    /\ mutex' = Unlocked
    /\ applied' = Apply(applied, outcome[w])
    /\ outcome' = [outcome EXCEPT ![w] = NoOutcome]
    /\ wpc' = [wpc EXCEPT ![w] = "select"]
    /\ UNCHANGED <<stats, stopClosed, wgCount, mainPc, printerPc, started>>
    /\ UNCHANGED <<handlerVars, concVars>>

\* printRealTimeStats, lines 219-220 and printCurrentStats, line 227.
PrinterTick ==
    /\ printerPc = "select"
    /\ CanLock(mutex)
    /\ mutex' = PrinterId
    /\ printerPc' = "printing"
    /\ UNCHANGED <<wpc, outcome, stats, stopClosed, wgCount, mainPc, started,
                   applied>>
    /\ UNCHANGED <<handlerVars, concVars>>

\* printCurrentStats, lines 230-256: the counters are printed, Unlock.
PrinterUnlock ==
    /\ printerPc = "printing"
    /\ mutex' = Unlocked
    /\ printerPc' = "select"
    /\ UNCHANGED <<wpc, outcome, stats, stopClosed, wgCount, mainPc, started,
                   applied>>
    /\ UNCHANGED <<handlerVars, concVars>>

\* printRealTimeStats, lines 217-218.
PrinterStop ==
    /\ printerPc = "select"
    /\ stopClosed
    /\ printerPc' = "returned"
    /\ UNCHANGED <<wpc, outcome, stats, mutex, stopClosed, wgCount, mainPc,
                   started, applied>>
    /\ UNCHANGED <<handlerVars, concVars>>

MainNext ==
    \/ MainStart
    \/ MainSpawn
    \/ MainClose
    \/ MainWait
    \/ MainReportLock
    \/ MainReportUnlock

WorkerUpdate(w) ==
    \/ WorkerAddTotal(w)
    \/ WorkerAddClass(w)
    \/ WorkerAddTotalEvents(w)
    \/ WorkerAddEvents(w)
    \/ WorkerUnlock(w)

LoadNext ==
    \/ MainNext
    \/ \E w \in Workers :
          \/ WorkerSelectStop(w)
          \/ WorkerSelectDefault(w)
          \/ WorkerLock(w)
          \/ WorkerUpdate(w)
    \/ PrinterTick
    \/ PrinterUnlock
    \/ PrinterStop

LoadSpec == Init /\ [][LoadNext]_vars

\* Every goroutine that can run does: a request returns within the client
\* timeout, a goroutine waiting for the mutex gets it, whoever holds it
\* releases it.
LiveLoadSpec ==
    /\ LoadSpec
    /\ WF_vars(MainNext)
    /\ SF_vars(MainReportLock)
    /\ WF_vars(PrinterUnlock)
    /\ \A w \in Workers :
          /\ WF_vars(WorkerSelectStop(w))
          /\ SF_vars(WorkerLock(w))
          /\ WF_vars(WorkerUpdate(w))

\* ------------------------------------------------------------------------
\* Vocabulary of the properties
\* ------------------------------------------------------------------------

Range(s) == {s[i] : i \in 1..Len(s)}

Count(x, s) == Cardinality({i \in 1..Len(s) : s[i] = x})

Inputs == 1..Len(events)

InputIds == {events[i].ID : i \in Inputs}

\* The input events with all four required fields.
ValidInputs == {i \in Inputs : Complete(events[i])}

\* The handler has written its 200 response.
Responded == pc = "done" /\ status = 200

\* The validation loop has run.
Validated == pc \notin {"idle", "validate"} /\ status # 400

\* SendEvents has returned, or was never called.
SendEventsReturned ==
    \/ pc \in {"respond", "done"}
    \/ pc = "publish" /\ pending = {}

Calls == 1..Len(writeCalls)

\* The topics whose WriteMessages call returned an error.
FailedTopics == {writeCalls[k].Topic : k \in {c \in Calls : writeCalls[c].Err # ""}}

Successes == Range(response.SuccessEventIds)
Invalids == Range(response.InvalidEventIds)
Faileds == Range(response.FailedEventIds)

PairwiseDisjoint ==
    /\ Successes \cap Invalids = {}
    /\ Successes \cap Faileds = {}
    /\ Invalids \cap Faileds = {}

DistinctIds == \A i, j \in Inputs : i # j => events[i].ID # events[j].ID

\* The identifiers of the input events classified c, in input order.
RECURSIVE IdsClassified(_, _)
IdsClassified(c, n) ==
    IF n = 0 THEN <<>>
    ELSE IF classOf[n] = c THEN Append(IdsClassified(c, n - 1), events[n].ID)
    ELSE IdsClassified(c, n - 1)

\* Each list of the response holds exactly the entries of the events that
\* were classified into it.
ResponseMatchesClassOf ==
    /\ response.SuccessEventIds = IdsClassified("succeeded", Len(events))
    /\ response.InvalidEventIds = IdsClassified("invalid", Len(events))
    /\ response.FailedEventIds = IdsClassified("failed", Len(events))

\* Consistency of the history variables with the state they describe.
HistoryConsistent ==
    /\ Len(validAt) = Len(validEvents)
    /\ \A k \in 1..Len(validAt) : events[validAt[k]] = validEvents[k]
    /\ DOMAIN groupAt = DOMAIN eventsByTopic
    /\ \A t \in DOMAIN groupAt :
          /\ Len(groupAt[t]) = Len(eventsByTopic[t])
          /\ \A j \in 1..Len(groupAt[t]) : events[groupAt[t][j]] = eventsByTopic[t][j]
    /\ SendEventsReturned =>
          DOMAIN errors = {events[i].ID : i \in marshalFailed} \cup FailedTopics

\* ------------------------------------------------------------------------
\* C1: partition of the identifiers
\* ------------------------------------------------------------------------

\* C1 (as claimed): for every batch, repeated identifiers included, the
\* three response lists are pairwise disjoint as sets and their union is the
\* set of input identifiers.
C1_PartitionAllBatches ==
    Responded => PairwiseDisjoint /\ Successes \cup Invalids \cup Faileds = InputIds

\* C1 (amended): for every batch the union of the three response lists is
\* the set of input identifiers, and the lists are pairwise disjoint whenever
\* the identifiers of the batch are pairwise distinct.
C1_PartitionDistinctIds ==
    Responded =>
        /\ Successes \cup Invalids \cup Faileds = InputIds
        /\ DistinctIds => PairwiseDisjoint

\* A two-event batch with distinct identifiers answered with one invalid and
\* one failed entry.
C1_Witness ==
    /\ Responded
    /\ Len(events) = 2
    /\ DistinctIds
    /\ Len(response.InvalidEventIds) = 1
    /\ Len(response.FailedEventIds) = 1

\* ------------------------------------------------------------------------
\* C4: one entry per input event
\* ------------------------------------------------------------------------

\* C4: after a decoded batch of n events is answered, the three lists hold n
\* entries in all, each event having contributed one entry to one list, also
\* when identifiers repeat.
C4_OneEntryPerEvent ==
    Responded =>
        /\ Len(response.SuccessEventIds) + Len(response.InvalidEventIds)
             + Len(response.FailedEventIds) = Len(events)
        /\ \A i \in Inputs : classOf[i] \in {"succeeded", "invalid", "failed"}
        /\ ResponseMatchesClassOf

\* Two valid events with the same identifier, one of which failed both to
\* encode and to publish.
C4_Witness ==
    /\ Responded
    /\ Len(events) = 2
    /\ events[1].ID = events[2].ID
    /\ ValidInputs = {1, 2}
    /\ marshalFailed # {}
    /\ FailedTopics # {}

\* ------------------------------------------------------------------------
\* C6: validateEvent
\* ------------------------------------------------------------------------

\* validateEvent gives the same result when one of the fields it does not
\* read is changed.
IgnoresOtherFields(event) ==
    /\ \A n \in OtherInts :
          /\ validateEvent([event EXCEPT !.EventTimestamp = n]) = validateEvent(event)
          /\ validateEvent([event EXCEPT !.BranchID = n]) = validateEvent(event)
          /\ validateEvent([event EXCEPT !.ChannelID = n]) = validateEvent(event)
          /\ validateEvent([event EXCEPT !.CustomerID = n]) = validateEvent(event)
          /\ validateEvent([event EXCEPT !.UserID = n]) = validateEvent(event)
    /\ \A x \in OtherStrings :
          /\ validateEvent([event EXCEPT !.EventTime = x]) = validateEvent(event)
          /\ validateEvent([event EXCEPT !.Version = x]) = validateEvent(event)
          /\ validateEvent([event EXCEPT !.Payload = x]) = validateEvent(event)

\* C6: validateEvent is true exactly when id, domain, subdomain and code are
\* all non-empty, whatever the other fields hold; and the handler files an
\* event under invalid exactly when one of the four is empty.
C6_ValidateEvent ==
    \A i \in Inputs :
        /\ validateEvent(events[i]) <=>
              (events[i].ID # "" /\ events[i].Domain # ""
                 /\ events[i].Subdomain # "" /\ events[i].Code # "")
        /\ IgnoresOtherFields(events[i])
        /\ Validated =>
              (classOf[i] = "invalid" <=>
                  (events[i].ID = "" \/ events[i].Domain = ""
                     \/ events[i].Subdomain = "" \/ events[i].Code = ""))

\* A validated batch with an event whose only empty required field is the
\* code, and a complete event.
C6_Witness ==
    /\ Validated
    /\ Len(events) = 2
    /\ events[1].ID # "" /\ events[1].Domain # "" /\ events[1].Subdomain # ""
    /\ events[1].Code = ""
    /\ classOf[1] = "invalid"
    /\ Complete(events[2])
    /\ classOf[2] # "invalid"

\* ------------------------------------------------------------------------
\* C2: isolation between topics
\* ------------------------------------------------------------------------

\* The map SendEvents returns when the topics in failedTopics are the ones
\* whose publish returned an error (the encoder failing as it did).
ErrorsIf(failedTopics) ==
    [k \in {events[i].ID : i \in marshalFailed} \cup failedTopics |-> "error"]

\* C2: when the publish for topic T returned an error, every valid event
\* whose topic is not T is classified exactly as it would have been had the
\* publish for T succeeded.
C2_Isolation ==
    Responded =>
        \A T \in FailedTopics :
            \A i \in ValidInputs :
                TopicName(events[i]) # T =>
                    classOf[i] = Classify(events[i], ErrorsIf(FailedTopics \ {T}))

\* ------------------------------------------------------------------------
\* C3: reconciliation priority
\* ------------------------------------------------------------------------

\* The classification the priority rule gives input event i from its own
\* validation result, its own encoding result and its own topic's publish
\* result.
Reference(i) ==
    IF ~Complete(events[i]) THEN "invalid"
    ELSE IF i \in marshalFailed THEN "failed"
    ELSE IF TopicName(events[i]) \in FailedTopics THEN "failed"
    ELSE "succeeded"

\* C3: every input event is classified as the priority rule says, and the
\* response lists hold the events so classified.
C3_ReconciliationPriority ==
    Responded =>
        /\ ResponseMatchesClassOf
        /\ \A i \in Inputs : classOf[i] = Reference(i)

\* ------------------------------------------------------------------------
\* C5: invalid events never reach the broker
\* ------------------------------------------------------------------------

\* The identifiers of the incomplete events among events[1..n], in order.
RECURSIVE IncompleteIds(_)
IncompleteIds(n) ==
    IF n = 0 THEN <<>>
    ELSE IF Complete(events[n]) THEN IncompleteIds(n - 1)
    ELSE Append(IncompleteIds(n - 1), events[n].ID)

\* C5: no message of any publish call encodes an event that failed
\* validation; such an event is always reported in invalidEventIds; and when
\* no event of the batch is valid, SendEvents is not called, no writer is
\* created and the succeeded and failed lists stay empty.
C5_InvalidNeverPublished ==
    /\ \A k \in Calls :
          \A m \in 1..Len(writeCalls[k].Messages) :
              LET msg == writeCalls[k].Messages[m]
              IN  /\ msg.Key # ""
                  /\ \A i \in Inputs \ ValidInputs :
                        msg.Value # Marshal(events[i])
    /\ Validated =>
          /\ response.InvalidEventIds = IncompleteIds(Len(events))
          /\ \A i \in Inputs \ ValidInputs : classOf[i] = "invalid"
    /\ (Validated /\ ValidInputs = {}) =>
          /\ pc \in {"respond", "done"}
          /\ writeCalls = <<>>
          /\ writersCreated = 0
          /\ response.SuccessEventIds = <<>>
          /\ response.FailedEventIds = <<>>

\* A batch of one invalid and one valid event, answered after a publish
\* call that carried one message.
C5_Witness ==
    /\ Responded
    /\ Len(events) = 2
    /\ ~Complete(events[1])
    /\ Complete(events[2])
    /\ Len(writeCalls) = 1
    /\ Len(writeCalls[1].Messages) = 1
    /\ response.InvalidEventIds = <<events[1].ID>>

\* ------------------------------------------------------------------------
\* C7: group-level publish failure
\* ------------------------------------------------------------------------

\* C7: when the publish call for topic T returned an error, every valid
\* event of topic T that did not fail to encode has its entry in
\* failedEventIds and nowhere else.
C7_GroupFailure ==
    Responded =>
        /\ ResponseMatchesClassOf
        /\ \A T \in FailedTopics :
              \A i \in ValidInputs :
                  (TopicName(events[i]) = T /\ i \notin marshalFailed) =>
                      /\ classOf[i] = "failed"
                      /\ events[i].ID \in Faileds

\* Two valid events with one identifier on two topics: the publish of the
\* first topic failed, that of the second did not.
C7_Witness ==
    /\ Responded
    /\ Len(events) = 2
    /\ ValidInputs = {1, 2}
    /\ events[1].ID = events[2].ID
    /\ marshalFailed = {}
    /\ FailedTopics = {TopicName(events[1])}
    /\ TopicName(events[2]) # TopicName(events[1])
    /\ response.FailedEventIds = <<events[1].ID>>
    /\ response.SuccessEventIds = <<events[2].ID>>

\* ------------------------------------------------------------------------
\* C8: per-event serialization failure
\* ------------------------------------------------------------------------

\* The messages of the events of evs[1..n] that the encoder accepts.
RECURSIVE EncodedOf(_, _)
EncodedOf(evs, n) ==
    IF n = 0 THEN <<>>
    ELSE IF evs[n] \in unencodable THEN EncodedOf(evs, n - 1)
    ELSE Append(EncodedOf(evs, n - 1), Message(evs[n]))

CallsFor(T) == {k \in Calls : writeCalls[k].Topic = T}

ValidTopics == {TopicName(events[i]) : i \in ValidInputs}

\* C9: WriteMessages is never called twice for one topic nor for a topic no
\* valid event has; when SendEvents has returned it was called exactly once
\* for each distinct topic of the valid events; and two valid events with
\* the same domain, subdomain and code are sent in the same call.
C9_OnePublishPerGroup ==
    /\ \A k \in Calls :
          /\ writeCalls[k].Topic \in ValidTopics
          /\ Cardinality(CallsFor(writeCalls[k].Topic)) = 1
    /\ SendEventsReturned =>
          /\ Len(writeCalls) = Cardinality(ValidTopics)
          /\ \A T \in ValidTopics : Cardinality(CallsFor(T)) = 1
          /\ \A i, j \in ValidInputs \ marshalFailed :
                (/\ events[i].Domain = events[j].Domain
                 /\ events[i].Subdomain = events[j].Subdomain
                 /\ events[i].Code = events[j].Code) =>
                    \E k \in Calls :
                        /\ Message(events[i]) \in Range(writeCalls[k].Messages)
                        /\ Message(events[j]) \in Range(writeCalls[k].Messages)

\* Two valid events of one topic with different identifiers, answered after
\* a single publish call that returned an error.
C9_Witness ==
    /\ Responded
    /\ Len(events) = 2
    /\ ValidInputs = {1, 2}
    /\ events[1].ID # events[2].ID
    /\ TopicName(events[1]) = TopicName(events[2])
    /\ Len(writeCalls) = 1
    /\ writeCalls[1].Err # ""
    /\ Len(writeCalls[1].Messages) = 2

\* ------------------------------------------------------------------------
\* C10: grouping
\* ------------------------------------------------------------------------

\* The grouping loop of SendEvents has run.
Grouped == pc = "publish" \/ (pc \in {"respond", "done"} /\ validEvents # <<>>)

\* The valid events of topic T, in input order.
RECURSIVE ValidOfTopic(_, _)
ValidOfTopic(T, n) ==
    IF n = 0 THEN <<>>
    ELSE IF Complete(events[n]) /\ TopicName(events[n]) = T
         THEN Append(ValidOfTopic(T, n - 1), events[n])
         ELSE ValidOfTopic(T, n - 1)

\* C10: after grouping, the groups are keyed by the topics of the valid
\* events, every valid event is in the group of its topic and in no other,
\* as often as it occurs in the input, unchanged, and each group lists its
\* events in input order.
C10_Grouping ==
    Grouped =>
        /\ DOMAIN eventsByTopic = ValidTopics
        /\ \A T \in DOMAIN eventsByTopic :
              /\ eventsByTopic[T] = ValidOfTopic(T, Len(events))
              /\ \A j \in 1..Len(eventsByTopic[T]) :
                    TopicName(eventsByTopic[T][j]) = T
        /\ \A i \in ValidInputs :
              /\ {T \in DOMAIN eventsByTopic : events[i] \in Range(eventsByTopic[T])}
                    = {TopicName(events[i])}
              /\ Count(events[i], eventsByTopic[TopicName(events[i])])
                    = Count(events[i], events)

\* Two different valid events of one topic, grouped in input order.
C10_Witness ==
    /\ pc = "publish"
    /\ Len(events) = 2
    /\ ValidInputs = {1, 2}
    /\ events[1] # events[2]
    /\ TopicName(events[1]) = TopicName(events[2])
    /\ eventsByTopic[TopicName(events[1])] = <<events[1], events[2]>>

\* ------------------------------------------------------------------------
\* C11: topic determinism and consistency
\* ------------------------------------------------------------------------

\* The three places that compute a topic agree on event, and with the
\* concatenation domain_subdomain_code.
SameTopicEverywhere(event) ==
    /\ TopicName(event) = event.Domain \o "_" \o event.Subdomain \o "_" \o event.Code
    /\ ReconcileTopicName(event) = TopicName(event)
    /\ SendEventTopicName(event) = TopicName(event)

\* The topic of event is unchanged when a field other than domain,
\* subdomain and code is changed.
TopicIgnoresOtherFields(event) ==
    /\ \A n \in OtherInts :
          /\ TopicName([event EXCEPT !.EventTimestamp = n]) = TopicName(event)
          /\ TopicName([event EXCEPT !.BranchID = n]) = TopicName(event)
          /\ TopicName([event EXCEPT !.ChannelID = n]) = TopicName(event)
          /\ TopicName([event EXCEPT !.CustomerID = n]) = TopicName(event)
          /\ TopicName([event EXCEPT !.UserID = n]) = TopicName(event)
    /\ \A x \in OtherStrings :
          /\ TopicName([event EXCEPT !.EventTime = x]) = TopicName(event)
          /\ TopicName([event EXCEPT !.Version = x]) = TopicName(event)
          /\ TopicName([event EXCEPT !.Payload = x]) = TopicName(event)
          /\ TopicName([event EXCEPT !.ID = x]) = TopicName(event)

\* C11: the topic of an event is domain_subdomain_code, a function of these
\* three fields alone; grouping, reconciling and SendEvent compute the same
\* string; events with equal domain, subdomain and code have the same topic
\* and are in the same group; and each valid event is reconciled under the
\* topic of the group it was published in.
C11_TopicConsistency ==
    /\ \A i \in Inputs :
          /\ SameTopicEverywhere(events[i])
          /\ TopicIgnoresOtherFields(events[i])
    /\ \A i, j \in Inputs :
          (/\ events[i].Domain = events[j].Domain
           /\ events[i].Subdomain = events[j].Subdomain
           /\ events[i].Code = events[j].Code) =>
              /\ TopicName(events[i]) = TopicName(events[j])
              /\ ReconcileTopicName(events[i]) = ReconcileTopicName(events[j])
    /\ Grouped =>
          \A T \in DOMAIN groupAt :
              \A j \in 1..Len(groupAt[T]) :
                  ReconcileTopicName(events[groupAt[T][j]]) = T

\* Two valid events that differ in identifier and payload only, grouped
\* together and answered.
C11_Witness ==
    /\ Responded
    /\ Len(events) = 2
    /\ ValidInputs = {1, 2}
    /\ events[1].ID # events[2].ID
    /\ events[1].Payload # events[2].Payload
    /\ DOMAIN groupAt = {"d_s_c"}
    /\ groupAt["d_s_c"] = <<1, 2>>

\* ------------------------------------------------------------------------
\* C12: a succeeded event was handed to the broker
\* ------------------------------------------------------------------------

\* C12: an event's entry is in successEventIds only if the event passed
\* validation, was encoded, and its message was in the message list of a
\* publish call of this request that returned no error.
C12_SucceededWasPublished ==
    Responded =>
        /\ ResponseMatchesClassOf
        /\ \A i \in Inputs :
              classOf[i] = "succeeded" =>
                  /\ Complete(events[i])
                  /\ events[i] \notin unencodable
                  /\ i \notin marshalFailed
                  /\ \E k \in Calls :
                        /\ writeCalls[k].Err = ""
                        /\ writeCalls[k].Topic = TopicName(events[i])
                        /\ \E m \in 1..Len(writeCalls[k].Messages) :
                              /\ writeCalls[k].Messages[m].Key = events[i].ID
                              /\ writeCalls[k].Messages[m].Value = Marshal(events[i])

\* A group of two events: the first could not be encoded, the second was
\* published and is reported succeeded.
C12_Witness ==
    /\ Responded
    /\ Len(events) = 2
    /\ marshalFailed = {1}
    /\ classOf = <<"failed", "succeeded">>
    /\ TopicName(events[1]) = TopicName(events[2])
    /\ response.SuccessEventIds = <<events[2].ID>>

\* ------------------------------------------------------------------------
\* C13: the dispatch call completes
\* ------------------------------------------------------------------------

\* The handler keeps running: every step it can take is eventually taken
\* (each publish call returns by its deadline).
LiveSpec == Spec /\ WF_vars(Next)

\* C13: every decoded request is eventually answered with status 200 and a
\* body carrying the three lists, whatever failed to encode or to publish.
C13_DispatchCompletes ==
    (pc = "validate") ~>
        (/\ pc = "done"
         /\ status = 200
         /\ body = [kind |-> "response", response |-> response])

\* A request answered 200 although an event failed to encode and a publish
\* call failed.
C13_Witness ==
    /\ Responded
    /\ body = [kind |-> "response", response |-> response]
    /\ marshalFailed # {}
    /\ FailedTopics # {}

\* ------------------------------------------------------------------------
\* C14: malformed request
\* ------------------------------------------------------------------------

\* C14: when the body cannot be decoded the handler answers 400 with an
\* error body and returns: no event is validated, nothing is published and no
\* outcome list is returned.
C14_MalformedRequest ==
    status = 400 =>
        /\ pc = "done"
        /\ body = [kind |-> "error", error |-> "Invalid JSON format"]
        /\ events = <<>>
        /\ validEvents = <<>>
        /\ classOf = <<>>
        /\ response = EmptyResponse
        /\ DOMAIN eventsByTopic = {}
        /\ writeCalls = <<>>
        /\ writersCreated = 0

\* The request was answered 400.
C14_Witness ==
    /\ status = 400
    /\ pc = "done"
    /\ body.kind = "error"

\* ------------------------------------------------------------------------
\* C15: writers and contexts are released
\* ------------------------------------------------------------------------

\* C15: between iterations of the range loop, and so when SendEvents
\* returns, no writer it created is open and no timeout context is live,
\* whether the publish calls succeeded or failed; one writer was created per
\* publish call.
C15_ResourceRelease ==
    /\ writersOpen = 0
    /\ contextsOpen = 0
    /\ writersCreated = Len(writeCalls)

\* SendEvents has returned after two publish calls, one of which failed.
C15_Witness ==
    /\ pc = "publish"
    /\ pending = {}
    /\ writersCreated = 2
    /\ writeCalls[1].Err # ""
    /\ writeCalls[2].Err = ""
    /\ writersOpen = 0

\* ------------------------------------------------------------------------
\* C16: concurrent requests are independent
\* ------------------------------------------------------------------------

\* The response the handler gives to batch, running alone, when the publish
\* calls that fail are those of the topics in failedTopics.
SoloResponse(batch, failedTopics) ==
    LET v == ValidateLoop(batch, Len(batch))
        start == [EmptyResponse EXCEPT !.InvalidEventIds = v.InvalidEventIds]
        g == GroupLoop(v.validEvents, v.validAt, Len(v.validEvents))
        errs == [T \in DOMAIN g.eventsByTopic \cap failedTopics |-> "write"]
    IN  IF Len(v.validEvents) > 0
        THEN ReconcileLoop(start, [i \in 1..Len(batch) |-> "none"],
                           v.validEvents, v.validAt, errs,
                           Len(v.validEvents)).response
        ELSE start

\* C16: under every interleaving, a request that was answered 200 carries
\* the response it would produce running alone with the same batch and the
\* same results of its own publish calls; no error of another request's
\* publish shows in it.
C16_CrossCallIndependence ==
    \A p \in CallIds :
        (calls[p].pc = "done" /\ calls[p].status = 200) =>
            /\ calls[p].body =
                  [kind |-> "response",
                   response |-> SoloResponse(calls[p].events, calls[p].failedTopics)]
            /\ \A q \in CallIds \ {p} :
                  \A T \in calls[q].failedTopics \ calls[p].failedTopics :
                      \A i \in 1..Len(calls[p].validEvents) :
                          TopicName(calls[p].validEvents[i]) = T =>
                              calls[p].validEvents[i].ID
                                  \in Range(calls[p].response.SuccessEventIds)

\* Two requests for the same topic, both answered: the publish of the first
\* failed, that of the second did not, and the second reports success.
C16_Witness ==
    /\ calls[1].pc = "done" /\ calls[2].pc = "done"
    /\ calls[1].events = <<ConcEvent("a", "d")>>
    /\ calls[2].events = <<ConcEvent("a", "d")>>
    /\ calls[1].failedTopics = {"d_s_c"}
    /\ calls[2].failedTopics = {}
    /\ calls[1].response.FailedEventIds = <<"a">>
    /\ calls[2].response.SuccessEventIds = <<"a">>

\* ------------------------------------------------------------------------
\* C17: the load-test counters are consistent under concurrency
\* ------------------------------------------------------------------------

RequestsAddUp(st) ==
    st.TotalRequests = st.SuccessRequests + st.FailedRequests + st.TimeoutRequests

EventsAddUp(st) ==
    st.TotalEvents = st.SuccessEvents + st.FailedEvents + st.InvalidEvents

\* C17: whenever no updateStats call is in progress, and in every state
\* printCurrentStats prints, total requests = success + failed + timeout
\* and total events = success + failed + invalid, and the counters are
\* those of the completed updateStats calls applied one after another.
C17_StatsConsistent ==
    (mutex \notin Workers) =>
        /\ RequestsAddUp(stats)
        /\ EventsAddUp(stats)
        /\ stats = applied

\* One worker has recorded a request that succeeded, another has a request
\* to record, and printCurrentStats is printing the counters.
C17_Witness ==
    /\ printerPc = "printing"
    /\ stats.TotalRequests = 1
    /\ stats.SuccessRequests = 1
    /\ stats.TotalEvents = EventsPerReq
    /\ \E w \in Workers : wpc[w] = "sending"

\* ------------------------------------------------------------------------
\* C18: shutdown of the load test
\* ------------------------------------------------------------------------

AllReturned == \A w \in Workers : wpc[w] = "returned"

ReportBegun == mainPc \in {"reporting", "done"}

\* Requests sent and not yet counted by updateStats.
InFlight == Cardinality({w \in Workers : wpc[w] \in {"sending", "u133"}})

ShutdownSafe ==
    /\ \A w \in Workers : wpc[w] = "returned" => stopClosed
    /\ started = stats.TotalRequests + InFlight
    /\ mainPc \in {"report", "reporting", "done"} =>
          /\ AllReturned
          /\ wgCount = 0
          /\ stats = applied
          /\ stats.TotalRequests = started

ShutdownStep ==
    /\ \A w \in Workers :
          wpc[w] = "returned" => wpc'[w] = "returned"
    /\ \A w \in Workers :
          (stopClosed /\ wpc[w] = "select") => wpc'[w] \in {"select", "returned"}
    /\ (mainPc \in {"report", "reporting", "done"}) =>
          (stats' = stats /\ started' = started)

\* C18: a worker returns only after stopChan is closed, having recorded
\* every request it sent, and sends nothing once it has seen the closed
\* channel; main records EndTime and reports only after every worker has
\* returned, and from then on the counters do not change; once stopChan is
\* closed every worker returns and the final report is printed.
C18_Shutdown ==
    /\ []ShutdownSafe
    /\ [][ShutdownStep]_vars
    /\ stopClosed ~> (AllReturned /\ mainPc = "done")

\* stopChan is closed and main waits: one worker has returned, another is
\* recording the request it had sent.
C18_Witness ==
    /\ stopClosed
    /\ mainPc = "wait"
    /\ wgCount = NumWorkers - 1
    /\ \E w \in Workers : wpc[w] = "returned"
    /\ \E w \in Workers : wpc[w] = "u133"

=============================================================================
